---- MODULE Spec2Model ----
(***************************************************************************)
(* The catalog accessor of the OWASP Agentic Security Dataset package      *)
(* (src/src/__init__.py): the process-wide dataset cache, the loaders, the *)
(* lookup and filter functions over the loaded dataset, and the working    *)
(* directory handling of generate_all_formats.                             *)
(*                                                                         *)
(* Python strings that the code converts or searches (ids, component-type  *)
(* labels, titles) are sequences of one-character strings, so that         *)
(* str.upper, str.lower and the substring test are computed character by   *)
(* character.  Other strings (file names, mitigation texts) are opaque.    *)
(***************************************************************************)
EXTENDS Naturals, Sequences, FiniteSets, TLC

VARIABLES
    fs,             \* the files the loaders can see: path -> file content
    dataset_cache,  \* _dataset_cache: <<>> is None, <<obj>> a cached dataset object
    nextOid,        \* identity of the next dataset object json.load or the generator builds
    cwd,            \* the process working directory
    sinceClear,     \* history: what the last clear_cache discarded, and whether
                    \* load_dataset has been called since
    last            \* history: the last call, its arguments, what it saw and returned

vars == <<fs, dataset_cache, nextOid, cwd, sinceClear, last>>

-----------------------------------------------------------------------------
(* Bounds of the model *)

\* dataset objects built in one run (json.load and the generator build a new one per call)
MaxObjects == 3
\* entries of a dataset file other than the generated one
MaxEntries == 2
\* incidents of a dataset file other than the generated one
MaxIncidents == 2

-----------------------------------------------------------------------------
(* Strings *)

LowerLetters ==
    <<"a","b","c","d","e","f","g","h","i","j","k","l","m",
      "n","o","p","q","r","s","t","u","v","w","x","y","z">>

UpperLetters ==
    <<"A","B","C","D","E","F","G","H","I","J","K","L","M",
      "N","O","P","Q","R","S","T","U","V","W","X","Y","Z">>

UpperChar(ch) ==
    IF \E i \in DOMAIN LowerLetters : LowerLetters[i] = ch
    THEN UpperLetters[CHOOSE i \in DOMAIN LowerLetters : LowerLetters[i] = ch]
    ELSE ch

LowerChar(ch) ==
    IF \E i \in DOMAIN UpperLetters : UpperLetters[i] = ch
    THEN LowerLetters[CHOOSE i \in DOMAIN UpperLetters : UpperLetters[i] = ch]
    ELSE ch

\* str.upper()
upper(s) == [i \in 1..Len(s) |-> UpperChar(s[i])]

\* str.lower()
lower(s) == [i \in 1..Len(s) |-> LowerChar(s[i])]

\* needle in hay, for two strings
InStr(needle, hay) ==
    \E i \in 0..Len(hay) :
        /\ i + Len(needle) <= Len(hay)
        /\ SubSeq(hay, i + 1, i + Len(needle)) = needle

\* x in xs, for a list
InList(x, xs) == \E i \in DOMAIN xs : xs[i] = x

Range(xs) == {xs[i] : i \in DOMAIN xs}

\* all sequences over S of length at most n
RECURSIVE SeqsUpTo(_, _)
SeqsUpTo(S, n) ==
    IF n = 0 THEN {<<>>}
    ELSE LET shorter == SeqsUpTo(S, n - 1)
         IN  shorter \cup {Append(q, x) : q \in shorter, x \in S}

-----------------------------------------------------------------------------
(* Constants of the package *)

ASI_IDS ==
    << <<"A","S","I","0","1">>,
       <<"A","S","I","0","2">>,
       <<"A","S","I","0","3">>,
       <<"A","S","I","0","4">>,
       <<"A","S","I","0","5">>,
       <<"A","S","I","0","6">>,
       <<"A","S","I","0","7">>,
       <<"A","S","I","0","8">>,
       <<"A","S","I","0","9">>,
       <<"A","S","I","1","0">> >>

COMPONENT_KEYS ==
    << <<"l","l","m","_","a","g","e","n","t">>,
       <<"t","o","o","l","_","i","n","t","e","g","r","a","t","i","o","n">>,
       <<"m","u","l","t","i","_","a","g","e","n","t">>,
       <<"u","s","e","r","_","i","n","t","e","r","f","a","c","e">>,
       <<"i","d","e","n","t","i","t","y","_","s","y","s","t","e","m">>,
       <<"m","e","m","o","r","y","_","s","t","o","r","e">>,
       <<"c","o","d","e","_","e","x","e","c","u","t","o","r">>,
       <<"o","r","c","h","e","s","t","r","a","t","o","r">>,
       <<"e","x","t","e","r","n","a","l","_","a","p","i">>,
       <<"c","o","m","m","u","n","i","c","a","t","i","o","n","_","l","a","y","e","r">>,
       <<"s","u","p","p","l","y","_","c","h","a","i","n">>,
       <<"r","a","g","_","s","y","s","t","e","m">> >>

COMPONENT_IDS ==
    << <<ASI_IDS[1], ASI_IDS[5], ASI_IDS[6], ASI_IDS[10]>>,
       <<ASI_IDS[2], ASI_IDS[4]>>,
       <<ASI_IDS[7], ASI_IDS[8]>>,
       <<ASI_IDS[9]>>,
       <<ASI_IDS[3]>>,
       <<ASI_IDS[6]>>,
       <<ASI_IDS[5]>>,
       <<ASI_IDS[1], ASI_IDS[8], ASI_IDS[10]>>,
       <<ASI_IDS[2], ASI_IDS[4]>>,
       <<ASI_IDS[7]>>,
       <<ASI_IDS[4]>>,
       <<ASI_IDS[1], ASI_IDS[6]>> >>


-----------------------------------------------------------------------------
(* The dataset the generator builds: the ten entries in canonical order.    *)

ASI_TITLES ==
    << <<"A","g","e","n","t"," ","G","o","a","l"," ","H","i","j","a","c","k">>,
       <<"T","o","o","l"," ","M","i","s","u","s","e"," ","&"," ","E","x","p","l","o","i","t","a","t","i","o","n">>,
       <<"I","d","e","n","t","i","t","y"," ","&"," ","P","r","i","v","i","l","e","g","e"," ","A","b","u","s","e">>,
       <<"A","g","e","n","t","i","c"," ","S","u","p","p","l","y"," ","C","h","a","i","n"," ","V","u","l","n","e","r","a","b","i","l","i","t","i","e","s">>,
       <<"U","n","e","x","p","e","c","t","e","d"," ","C","o","d","e"," ","E","x","e","c","u","t","i","o","n"," ","(","R","C","E",")">>,
       <<"M","e","m","o","r","y"," ","&"," ","C","o","n","t","e","x","t"," ","P","o","i","s","o","n","i","n","g">>,
       <<"I","n","s","e","c","u","r","e"," ","I","n","t","e","r","-","A","g","e","n","t"," ","C","o","m","m","u","n","i","c","a","t","i","o","n">>,
       <<"C","a","s","c","a","d","i","n","g"," ","F","a","i","l","u","r","e","s">>,
       <<"H","u","m","a","n","-","A","g","e","n","t"," ","T","r","u","s","t"," ","E","x","p","l","o","i","t","a","t","i","o","n">>,
       <<"R","o","g","u","e"," ","A","g","e","n","t","s">> >>

GEN_MITIGATION_A ==
    << "ASI01 mitigation 1",
       "ASI02 mitigation 1",
       "ASI03 mitigation 1",
       "ASI04 mitigation 1",
       "ASI05 mitigation 1",
       "ASI06 mitigation 1",
       "ASI07 mitigation 1",
       "ASI08 mitigation 1",
       "ASI09 mitigation 1",
       "ASI10 mitigation 1" >>

GEN_MITIGATION_B ==
    << "ASI01 mitigation 2",
       "ASI02 mitigation 2",
       "ASI03 mitigation 2",
       "ASI04 mitigation 2",
       "ASI05 mitigation 2",
       "ASI06 mitigation 2",
       "ASI07 mitigation 2",
       "ASI08 mitigation 2",
       "ASI09 mitigation 2",
       "ASI10 mitigation 2" >>

GEN_SCENARIO ==
    << "ASI01 scenario",
       "ASI02 scenario",
       "ASI03 scenario",
       "ASI04 scenario",
       "ASI05 scenario",
       "ASI06 scenario",
       "ASI07 scenario",
       "ASI08 scenario",
       "ASI09 scenario",
       "ASI10 scenario" >>

GEN_RELATED ==
    << <<"LLM01:2025 Prompt Injection", "LLM06:2025 Excessive Agency">>,
       <<"LLM reference of ASI02">>,
       <<"LLM reference of ASI03">>,
       <<"LLM reference of ASI04">>,
       <<"LLM reference of ASI05">>,
       <<"LLM reference of ASI06">>,
       <<"LLM reference of ASI07">>,
       <<"LLM reference of ASI08">>,
       <<"LLM reference of ASI09">>,
       <<"LLM reference of ASI10">> >>

GeneratedEntry(i) ==
    [id                  |-> ASI_IDS[i],
     title               |-> ASI_TITLES[i],
     mitigations         |-> <<GEN_MITIGATION_A[i], GEN_MITIGATION_B[i]>>,
     attack_scenarios    |-> <<[name |-> GEN_SCENARIO[i], description |-> "description"]>>,
     related_llm_entries |-> GEN_RELATED[i]]

GeneratedIncidents ==
    <<[name |-> "EchoLeak", related_asi |-> <<ASI_IDS[1]>>]>>

\* parser.create_owasp_agentic_top10(): the structure of spec section 3
create_owasp_agentic_top10 ==
    [entries          |-> [i \in DOMAIN ASI_IDS |-> GeneratedEntry(i)],
     exploits_tracker |-> [incidents |-> GeneratedIncidents]]

-----------------------------------------------------------------------------
(* Dataset files: what a JSON file at a path may hold.  A file need not     *)
(* hold the canonical dataset: entries may be missing, repeated or out of   *)
(* order, an id may be spelled in lower case, an incident may lack its      *)
(* related_asi field.                                                       *)

ID_asi05_lower == <<"a","s","i","0","5">>

TITLE_dup == <<"G","o","a","l"," ","H","i","j","a","c","k"," ","(","d","u","p","l","i","c","a","t","e",")">>

TITLE_low == <<"u","n","e","x","p","e","c","t","e","d"," ","c","o","d","e"," ","e","x","e","c","u","t","i","o","n">>

E_dup ==
    [id                  |-> ASI_IDS[1],
     title               |-> TITLE_dup,
     mitigations         |-> <<"other mitigation">>,
     attack_scenarios    |-> <<>>,
     related_llm_entries |-> <<"LLM09:2025 Misinformation">>]

E_lower ==
    [id                  |-> ID_asi05_lower,
     title               |-> TITLE_low,
     mitigations         |-> <<"lower-case mitigation">>,
     attack_scenarios    |-> <<>>,
     related_llm_entries |-> <<>>]

EntryPool == {GeneratedEntry(1), E_dup, GeneratedEntry(6), E_lower}

I_06 == [name |-> "incident linked to ASI06", related_asi |-> <<ASI_IDS[6]>>]

I_01_06 == [name |-> "incident linked to ASI01 and ASI06",
            related_asi |-> <<ASI_IDS[1], ASI_IDS[6]>>]

I_unlinked == [name |-> "incident without related_asi"]

IncidentPool == {I_06, I_01_06, I_unlinked}

Dataset(es, is) == [entries |-> es, exploits_tracker |-> [incidents |-> is]]

DatasetPool ==
    {Dataset(es, GeneratedIncidents) : es \in SeqsUpTo(EntryPool, MaxEntries)}
    \cup {Dataset(create_owasp_agentic_top10.entries, is) :
              is \in SeqsUpTo(IncidentPool, MaxIncidents)}

CustomDataset == Dataset(<<GeneratedEntry(10), GeneratedEntry(1)>>, <<I_06>>)

Missing == [kind |-> "missing", data |-> <<>>]
Malformed == [kind |-> "malformed", data |-> <<>>]
JsonFile(ds) == [kind |-> "json", data |-> ds]

\* _get_data_path() / "owasp_agentic_top10_full.json"
DefaultPath == "data/owasp_agentic_top10_full.json"
CustomPath == "custom.json"
Paths == {DefaultPath, CustomPath}
\* filepath=None
NoPath == "None"

-----------------------------------------------------------------------------
(* Results of a call.  A call evaluated with cache c and object counter n   *)
(* yields how it ended (kind: "value", "none" for a returned None, "raise"),*)
(* the value or the exception, the cache and counter it leaves, and the     *)
(* trace io of what it touched: "load_dataset" when load_dataset is entered,*)
(* "exists", "open", "json.load" for the file, and                          *)
(* "create_owasp_agentic_top10" for the generator.                          *)

Returned(v, c, n, io) ==
    [kind |-> "value", val |-> v, err |-> "", cache |-> c, nextOid |-> n, io |-> io]

ReturnedNone(c, n, io) ==
    [kind |-> "none", val |-> <<>>, err |-> "", cache |-> c, nextOid |-> n, io |-> io]

Raised(e, c, n, io) ==
    [kind |-> "raise", val |-> <<>>, err |-> e, cache |-> c, nextOid |-> n, io |-> io]

-----------------------------------------------------------------------------
(* load_dataset and clear_cache *)

\* mutant of cache_after_load: the result is stored whatever use_cache says
cache_after_load_always(c, use_cache, obj) == <<obj>>

\* if use_cache: _dataset_cache = data
cache_after_load(c, use_cache, obj) ==
    IF use_cache THEN <<obj>> ELSE c

\* the load path of load_dataset: resolve the path, read the file if it
\* exists, else call the generator; store the result if use_cache
load_from_path(c, n, filepath, use_cache) ==
    LET path == IF filepath # NoPath THEN filepath ELSE DefaultPath
    IN  IF fs[path].kind # "missing"
        THEN IF fs[path].kind = "malformed"
             THEN Raised("JSONDecodeError", c, n,
                         <<"load_dataset", "exists", "open", "json.load">>)
             ELSE LET obj == [oid |-> n, data |-> fs[path].data]
                  IN  Returned(obj, cache_after_load(c, use_cache, obj), n + 1,
                               <<"load_dataset", "exists", "open", "json.load">>)
        ELSE LET obj == [oid |-> n, data |-> create_owasp_agentic_top10]
             IN  Returned(obj, cache_after_load(c, use_cache, obj), n + 1,
                          <<"load_dataset", "exists", "create_owasp_agentic_top10">>)

\* mutant of load_dataset: the cache is consulted only when no path is given
load_dataset_path_bypass(c, n, filepath, use_cache) ==
    IF use_cache /\ c # <<>> /\ filepath = NoPath
    THEN Returned(c[1], c, n, <<"load_dataset">>)
    ELSE load_from_path(c, n, filepath, use_cache)

load_dataset(c, n, filepath, use_cache) ==
    IF use_cache /\ c # <<>>
    THEN Returned(c[1], c, n, <<"load_dataset">>)
    ELSE load_from_path(c, n, filepath, use_cache)

\* mutant of clear_cache: the assignment is lost (no global statement)
clear_cache_local == dataset_cache

\* _dataset_cache = None
clear_cache == <<>>

-----------------------------------------------------------------------------
(* Accessors *)

\* load_entries() with no filepath
load_entries(c, n) ==
    LET r == load_dataset(c, n, NoPath, TRUE)
    IN  IF r.kind = "raise" THEN r ELSE [r EXCEPT !.val = r.val.data.entries]

\* for entry in entries: if entry["id"] == asi_id: return entry
\* (the index of the entry returned, 0 when the loop ends without a match)
RECURSIVE scan_id(_, _, _)
scan_id(entries, i, asi_id) ==
    IF i > Len(entries) THEN 0
    ELSE IF entries[i].id = asi_id THEN i
    ELSE scan_id(entries, i + 1, asi_id)

get_entry(c, n, asi_id) ==
    LET id == upper(asi_id)
        r  == load_entries(c, n)
    IN  IF r.kind = "raise" THEN r
        ELSE LET i == scan_id(r.val, 1, id)
             IN  IF i = 0
                 THEN ReturnedNone(r.cache, r.nextOid, r.io)
                 ELSE Returned(r.val[i], r.cache, r.nextOid, r.io)

\* for entry in entries: if title_lower in entry["title"].lower(): return entry
RECURSIVE scan_title(_, _, _)
scan_title(entries, i, title_lower) ==
    IF i > Len(entries) THEN 0
    ELSE IF InStr(title_lower, lower(entries[i].title)) THEN i
    ELSE scan_title(entries, i + 1, title_lower)

get_entry_by_title(c, n, title) ==
    LET title_lower == lower(title)
        r == load_entries(c, n)
    IN  IF r.kind = "raise" THEN r
        ELSE LET i == scan_title(r.val, 1, title_lower)
             IN  IF i = 0
                 THEN ReturnedNone(r.cache, r.nextOid, r.io)
                 ELSE Returned(r.val[i], r.cache, r.nextOid, r.io)

\* mutant of get_mitigations: an unknown id gives an empty list
get_mitigations_lenient(c, n, asi_id) ==
    LET r == get_entry(c, n, asi_id)
    IN  IF r.kind = "raise" THEN r
        ELSE IF r.kind = "none" THEN Returned(<<>>, r.cache, r.nextOid, r.io)
        ELSE [r EXCEPT !.val = r.val.mitigations]

get_mitigations(c, n, asi_id) ==
    LET r == get_entry(c, n, asi_id)
    IN  IF r.kind = "raise" THEN r
        ELSE IF r.kind = "none" THEN Raised("ValueError", r.cache, r.nextOid, r.io)
        ELSE [r EXCEPT !.val = r.val.mitigations]

get_attack_scenarios(c, n, asi_id) ==
    LET r == get_entry(c, n, asi_id)
    IN  IF r.kind = "raise" THEN r
        ELSE IF r.kind = "none" THEN Raised("ValueError", r.cache, r.nextOid, r.io)
        ELSE [r EXCEPT !.val = r.val.attack_scenarios]

get_related_llm_entries(c, n, asi_id) ==
    LET r == get_entry(c, n, asi_id)
    IN  IF r.kind = "raise" THEN r
        ELSE IF r.kind = "none" THEN Raised("ValueError", r.cache, r.nextOid, r.io)
        ELSE [r EXCEPT !.val = r.val.related_llm_entries]

\* mutant of related_dict: an id already stored is not overwritten
RECURSIVE related_dict_keep_first(_, _, _)
related_dict_keep_first(entries, i, d) ==
    IF i > Len(entries) THEN d
    ELSE related_dict_keep_first(entries, i + 1,
                                 d @@ (entries[i].id :> entries[i].related_llm_entries))

\* {entry["id"]: entry["related_llm_entries"] for entry in entries}:
\* the dict after the entries from i on are stored into d, in order
RECURSIVE related_dict(_, _, _)
related_dict(entries, i, d) ==
    IF i > Len(entries) THEN d
    ELSE related_dict(entries, i + 1,
                      (entries[i].id :> entries[i].related_llm_entries) @@ d)

get_asi_to_llm_mapping(c, n) ==
    LET r == load_entries(c, n)
    IN  IF r.kind = "raise" THEN r
        ELSE [r EXCEPT !.val = related_dict(r.val, 1, <<>>)]

get_incidents(c, n) ==
    LET r == load_dataset(c, n, NoPath, TRUE)
    IN  IF r.kind = "raise" THEN r
        ELSE [r EXCEPT !.val = r.val.data.exploits_tracker.incidents]

\* incident.get("related_asi", [])
get_related_asi(incident) ==
    IF "related_asi" \in DOMAIN incident THEN incident.related_asi ELSE <<>>

\* [incident for incident in incidents if asi_id in incident.get("related_asi", [])]
RECURSIVE incidents_with(_, _, _)
incidents_with(incidents, i, asi_id) ==
    IF i > Len(incidents) THEN <<>>
    ELSE (IF InList(asi_id, get_related_asi(incidents[i]))
          THEN <<incidents[i]>> ELSE <<>>)
         \o incidents_with(incidents, i + 1, asi_id)

\* mutant of get_incidents_by_asi: the id is compared as given
get_incidents_by_asi_as_given(c, n, asi_id) ==
    LET r == get_incidents(c, n)
    IN  IF r.kind = "raise" THEN r
        ELSE [r EXCEPT !.val = incidents_with(r.val, 1, asi_id)]

get_incidents_by_asi(c, n, asi_id) ==
    LET id == upper(asi_id)
        r  == get_incidents(c, n)
    IN  IF r.kind = "raise" THEN r
        ELSE [r EXCEPT !.val = incidents_with(r.val, 1, id)]

COMPONENT_THREAT_MAP ==
    [k \in Range(COMPONENT_KEYS) |->
        COMPONENT_IDS[CHOOSE i \in DOMAIN COMPONENT_KEYS : COMPONENT_KEYS[i] = k]]

\* mutant of entries_in: the result follows the order of relevant_ids
RECURSIVE entries_by_ids(_, _, _)
entries_by_ids(entries, i, relevant_ids) ==
    IF i > Len(relevant_ids) THEN <<>>
    ELSE SelectSeq(entries, LAMBDA e : e.id = relevant_ids[i])
         \o entries_by_ids(entries, i + 1, relevant_ids)

\* [entry for entry in data["entries"] if entry["id"] in relevant_ids]
RECURSIVE entries_in(_, _, _)
entries_in(entries, i, relevant_ids) ==
    IF i > Len(entries) THEN <<>>
    ELSE (IF InList(entries[i].id, relevant_ids) THEN <<entries[i]>> ELSE <<>>)
         \o entries_in(entries, i + 1, relevant_ids)

\* mutant of get_threats_for_component: the dataset is loaded before the
\* component type is checked
get_threats_for_component_load_first(c, n, component_type, data) ==
    LET ctype == lower(component_type)
        r == IF data = <<>>
             THEN load_dataset(c, n, NoPath, TRUE)
             ELSE Returned(data[1], c, n, <<>>)
    IN  IF r.kind = "raise" THEN r
        ELSE IF ctype \notin DOMAIN COMPONENT_THREAT_MAP
        THEN Raised("ValueError", r.cache, r.nextOid, r.io)
        ELSE [r EXCEPT !.val = entries_in(r.val.data.entries, 1, COMPONENT_THREAT_MAP[ctype])]

\* data is <<>> for None, <<obj>> for a preloaded dataset
get_threats_for_component(c, n, component_type, data) ==
    LET ctype == lower(component_type)
    IN  IF ctype \notin DOMAIN COMPONENT_THREAT_MAP
        THEN Raised("ValueError", c, n, <<>>)
        ELSE LET relevant_ids == COMPONENT_THREAT_MAP[ctype]
                 r == IF data = <<>>
                      THEN load_dataset(c, n, NoPath, TRUE)
                      ELSE Returned(data[1], c, n, <<>>)
             IN  IF r.kind = "raise" THEN r
                 ELSE [r EXCEPT !.val = entries_in(r.val.data.entries, 1, relevant_ids)]

-----------------------------------------------------------------------------
(* generate_all_formats.  The environment decides where the call fails, if  *)
(* it does (fault), and in which directory the provider's main() leaves the *)
(* process (left).                                                          *)

Dirs == {"/proj", "/proj/output", "/srv/out", "/tmp"}

OutputDirs == {"."} \cup Dirs

GenFaults == {"none", "mkdir", "chdir", "import", "main"}

\* the directory Path(output_dir) names for a process in directory wd
resolve(wd, output_dir) == IF output_dir = "." THEN wd ELSE output_dir

FORMAT_FILES ==
    [full_json       |-> "owasp_agentic_top10_full.json",
     full_yaml       |-> "owasp_agentic_top10_full.yaml",
     entries_json    |-> "owasp_agentic_top10_entries.json",
     entries_yaml    |-> "owasp_agentic_top10_entries.yaml",
     mappings_json   |-> "owasp_agentic_top10_mappings.json",
     mappings_yaml   |-> "owasp_agentic_top10_mappings.yaml",
     simplified_json |-> "owasp_agentic_top10_simplified.json",
     simplified_yaml |-> "owasp_agentic_top10_simplified.yaml"]

\* mutant of leave_try: os.chdir(original_dir) follows the try statement
\* instead of standing in a finally clause
leave_try_no_finally(original_dir, now, fault) ==
    IF fault = "none" THEN original_dir ELSE now

\* try: ... finally: os.chdir(original_dir): the working directory when the
\* try statement is left, the process being in directory now
leave_try(original_dir, now, fault) == original_dir

\* the call in directory wd: how it ends, the directory it leaves the process
\* in (cwd) and the directory the provider ran in (during, wd if none did)
generate_all_formats(wd, output_dir, fault, left) ==
    IF fault = "mkdir"
    THEN [kind |-> "raise", val |-> <<>>, err |-> "OSError(mkdir)",
          cwd |-> wd, during |-> wd, left |-> wd]
    ELSE LET original_dir == wd
         IN  IF fault = "chdir"
             THEN [kind |-> "raise", val |-> <<>>, err |-> "OSError(chdir)",
                   cwd |-> wd, during |-> wd, left |-> wd]
             ELSE LET entered == resolve(wd, output_dir)
                  IN  IF fault = "import"
                      THEN [kind |-> "raise", val |-> <<>>, err |-> "ImportError",
                            cwd |-> leave_try(original_dir, entered, fault),
                            during |-> entered, left |-> entered]
                      ELSE IF fault = "main"
                      THEN [kind |-> "raise", val |-> <<>>, err |-> "ProviderError",
                            cwd |-> leave_try(original_dir, left, fault),
                            during |-> entered, left |-> left]
                      ELSE [kind |-> "value",
                            val |-> [f \in DOMAIN FORMAT_FILES |-> <<output_dir, FORMAT_FILES[f]>>],
                            err |-> "",
                            cwd |-> leave_try(original_dir, left, fault),
                            during |-> entered, left |-> left]

-----------------------------------------------------------------------------
(* Inputs of the calls *)

L_LLM_Agent == <<"L","L","M","_","A","g","e","n","t">>

L_RAG_SYSTEM == <<"R","A","G","_","S","Y","S","T","E","M">>

L_nonexistent_type == <<"n","o","n","e","x","i","s","t","e","n","t","_","t","y","p","e">>

L_llm_dash_agent == <<"l","l","m","-","a","g","e","n","t">>

Q_asi01 == <<"a","s","i","0","1">>

Q_Asi06 == <<"A","s","i","0","6">>

Q_ASI99 == <<"A","S","I","9","9">>

T_goal_hijack == <<"g","o","a","l"," ","h","i","j","a","c","k">>

T_AGENT == <<"A","G","E","N","T">>

T_rogue == <<"R","o","g","u","e"," ","a","g","e","n","t","s">>

T_zzz == <<"z","z","z">>

ComponentInputs ==
    Range(COMPONENT_KEYS)
    \cup {L_LLM_Agent, L_RAG_SYSTEM, L_nonexistent_type, L_llm_dash_agent, <<>>}

IdInputs == {ASI_IDS[1], ASI_IDS[6], ASI_IDS[10], Q_asi01, Q_Asi06, Q_ASI99, ID_asi05_lower}

TitleInputs == {T_goal_hijack, T_AGENT, T_rogue, T_zzz, <<>>}

\* the dataset a caller holds and can pass as data: what
\* load_dataset(use_cache=False) returned to it, when it returned
PreloadedData ==
    LET r == load_dataset(<<>>, 0, NoPath, FALSE)
    IN  IF r.kind = "value" THEN {<<r.val>>} ELSE {}

-----------------------------------------------------------------------------
(* The state machine *)

\* the files of a run: the default file and a custom file, each with one of
\* the given contents
Files(defaultContents, customContents) ==
    {f \in [Paths -> defaultContents \cup customContents] :
        /\ f[DefaultPath] \in defaultContents
        /\ f[CustomPath] \in customContents}

InitWith(files) ==
    /\ fs \in files
    /\ dataset_cache = <<>>
    /\ nextOid = 1
    /\ cwd = "/proj"
    /\ sinceClear = [armed |-> FALSE, stale |-> <<>>]
    /\ last = [op |-> "init", args |-> <<>>, kind |-> "none", val |-> <<>>, err |-> "",
               io |-> <<>>, pre |-> <<>>]

\* a call of the function op with arguments args that ends as r
Call(op, args, r) ==
    /\ r.nextOid <= MaxObjects + 1
    /\ dataset_cache' = r.cache
    /\ nextOid' = r.nextOid
    /\ sinceClear' = IF InList("load_dataset", r.io)
                     THEN [sinceClear EXCEPT !.armed = FALSE]
                     ELSE sinceClear
    /\ last' = [op |-> op, args |-> args, kind |-> r.kind, val |-> r.val, err |-> r.err,
                io |-> r.io,
                pre |-> [cache |-> dataset_cache, armed |-> sinceClear.armed,
                         stale |-> sinceClear.stale]]
    /\ UNCHANGED <<fs, cwd>>

LoadDataset ==
    \E filepath \in Paths \cup {NoPath}, use_cache \in BOOLEAN :
        Call("load_dataset", [filepath |-> filepath, use_cache |-> use_cache],
             load_dataset(dataset_cache, nextOid, filepath, use_cache))

ClearCache ==
    /\ dataset_cache' = clear_cache
    /\ sinceClear' = [armed |-> TRUE, stale |-> dataset_cache]
    /\ last' = [op |-> "clear_cache", args |-> <<>>, kind |-> "none", val |-> <<>>,
                err |-> "", io |-> <<>>,
                pre |-> [cache |-> dataset_cache, op |-> last.op]]
    /\ UNCHANGED <<fs, nextOid, cwd>>

GetEntry ==
    \E asi_id \in IdInputs :
        Call("get_entry", [asi_id |-> asi_id], get_entry(dataset_cache, nextOid, asi_id))

GetEntryByTitle ==
    \E title \in TitleInputs :
        Call("get_entry_by_title", [title |-> title],
             get_entry_by_title(dataset_cache, nextOid, title))

GetMitigations ==
    \E asi_id \in IdInputs :
        Call("get_mitigations", [asi_id |-> asi_id],
             get_mitigations(dataset_cache, nextOid, asi_id))

GetAttackScenarios ==
    \E asi_id \in IdInputs :
        Call("get_attack_scenarios", [asi_id |-> asi_id],
             get_attack_scenarios(dataset_cache, nextOid, asi_id))

GetRelatedLlmEntries ==
    \E asi_id \in IdInputs :
        Call("get_related_llm_entries", [asi_id |-> asi_id],
             get_related_llm_entries(dataset_cache, nextOid, asi_id))

GetAsiToLlmMapping ==
    Call("get_asi_to_llm_mapping", <<>>, get_asi_to_llm_mapping(dataset_cache, nextOid))

GetIncidentsByAsi ==
    \E asi_id \in IdInputs :
        Call("get_incidents_by_asi", [asi_id |-> asi_id],
             get_incidents_by_asi(dataset_cache, nextOid, asi_id))

GetThreatsForComponent ==
    \E component_type \in ComponentInputs, data \in {<<>>} \cup PreloadedData :
        Call("get_threats_for_component",
             [component_type |-> component_type, data |-> data],
             get_threats_for_component(dataset_cache, nextOid, component_type, data))

\* the caller changes the working directory between calls
Chdir ==
    /\ \E d \in Dirs \ {cwd} : cwd' = d
    /\ last' = [op |-> "chdir", args |-> <<>>, kind |-> "none", val |-> <<>>,
                err |-> "", io |-> <<>>, pre |-> [cwd |-> cwd]]
    /\ UNCHANGED <<fs, dataset_cache, nextOid, sinceClear>>

GenerateAllFormats ==
    \E output_dir \in OutputDirs, fault \in GenFaults, left \in Dirs :
        LET r == generate_all_formats(cwd, output_dir, fault, left)
        IN  /\ cwd' = r.cwd
            /\ last' = [op |-> "generate_all_formats",
                        args |-> [output_dir |-> output_dir, fault |-> fault,
                                  during |-> r.during, left |-> r.left],
                        kind |-> r.kind, val |-> r.val, err |-> r.err, io |-> <<>>,
                        pre |-> [cwd |-> cwd]]
            /\ UNCHANGED <<fs, dataset_cache, nextOid, sinceClear>>

\* load_dataset and clear_cache over a default file and a custom file
InitCache ==
    InitWith(Files({Missing, Malformed, JsonFile(create_owasp_agentic_top10)},
                   {Missing, Malformed, JsonFile(CustomDataset)}))

NextCache == LoadDataset \/ ClearCache

SpecCache == InitCache /\ [][NextCache]_vars

\* the accessors over every dataset file of DatasetPool
InitLookup ==
    InitWith(Files({Missing, Malformed} \cup {JsonFile(ds) : ds \in DatasetPool},
                   {Missing}))

NextLookup ==
    \/ GetEntry
    \/ GetEntryByTitle
    \/ GetMitigations
    \/ GetAttackScenarios
    \/ GetRelatedLlmEntries
    \/ GetAsiToLlmMapping
    \/ GetIncidentsByAsi
    \/ GetThreatsForComponent

SpecLookup == InitLookup /\ [][NextLookup]_vars

\* generate_all_formats from every working directory
InitGenerate == InitWith(Files({Missing}, {Missing}))

NextGenerate == Chdir \/ GenerateAllFormats

SpecGenerate == InitGenerate /\ [][NextGenerate]_vars

\* the whole package
Init == InitCache

Next == NextCache \/ NextLookup \/ NextGenerate

Spec == Init /\ [][Next]_vars

-----------------------------------------------------------------------------
(* Properties of load_dataset and clear_cache (SpecCache) *)

IsLoad == last.op = "load_dataset"

\* the call read a file or ran the generator
RanLoadPath ==
    /\ InList("exists", last.io)
    /\ InList("open", last.io) \/ InList("create_owasp_agentic_top10", last.io)

\* the call touched neither a file nor the generator
TouchedNothing ==
    /\ ~InList("exists", last.io)
    /\ ~InList("open", last.io)
    /\ ~InList("json.load", last.io)
    /\ ~InList("create_owasp_agentic_top10", last.io)

\* C1: whenever the cache is populated, load_dataset(path, use_cache=True)
\* returns the cached object itself and leaves the cache as it was, whatever
\* path is (omitted, existing, missing, malformed), without reading a file or
\* calling the generator.
C1_CacheHit ==
    (IsLoad /\ last.args.use_cache /\ last.pre.cache # <<>>)
    => /\ last.kind = "value"
       /\ last.val = last.pre.cache[1]
       /\ dataset_cache = last.pre.cache
       /\ TouchedNothing

\* a cache hit for a path that does not exist, on a cache holding a dataset
\* that was read from a file
C1_Witness ==
    /\ IsLoad /\ last.args.use_cache /\ last.pre.cache # <<>>
    /\ last.args.filepath = CustomPath
    /\ fs[CustomPath] = Missing
    /\ fs[DefaultPath].kind = "json"
    /\ last.kind = "value"
    /\ last.val.oid = last.pre.cache[1].oid

\* C2: clear_cache leaves the cache empty and returns normally, cached or
\* not; a second clear_cache changes nothing; the first load_dataset call
\* after a clear_cache runs the load path and does not return the object the
\* clear discarded.
C2_ClearForcesReload ==
    /\ last.op = "clear_cache"
       => /\ dataset_cache = <<>>
          /\ last.kind = "none"
          /\ last.pre.op = "clear_cache" => dataset_cache = last.pre.cache
    /\ (IsLoad /\ last.pre.armed)
       => /\ RanLoadPath
          /\ (last.kind = "value" /\ last.pre.stale # <<>>)
             => last.val.oid # last.pre.stale[1].oid
          /\ (dataset_cache # <<>> /\ last.pre.stale # <<>>)
             => dataset_cache[1].oid # last.pre.stale[1].oid

\* load_dataset() right after a clear_cache that discarded a dataset: the
\* same file is read again and gives an equal dataset in a new object
C2_Witness ==
    /\ IsLoad /\ last.pre.armed /\ last.pre.stale # <<>>
    /\ last.args = [filepath |-> NoPath, use_cache |-> TRUE]
    /\ last.kind = "value"
    /\ last.val.data = last.pre.stale[1].data
    /\ last.val.oid # last.pre.stale[1].oid
    /\ dataset_cache = <<last.val>>

\* C3: load_dataset with an explicit path that does not exist, and no cache
\* hit, raises FileNotFoundError and leaves the cache unchanged; the
\* generator runs only when the path is omitted and the default file is
\* missing.
C3_ExplicitMissingPathFails ==
    /\ (/\ IsLoad
        /\ last.args.filepath # NoPath
        /\ fs[last.args.filepath] = Missing
        /\ ~(last.args.use_cache /\ last.pre.cache # <<>>))
       => /\ last.kind = "raise"
          /\ last.err = "FileNotFoundError"
          /\ dataset_cache = last.pre.cache
    /\ (IsLoad /\ InList("create_owasp_agentic_top10", last.io))
       => /\ last.args.filepath = NoPath
          /\ fs[DefaultPath] = Missing

\* C10: load_dataset(path, use_cache=False) always runs the load path and
\* leaves the cache as it was, so load_dataset() afterwards still returns the
\* object cached before, or loads afresh when nothing was cached.
C10_NoCacheLoad ==
    (IsLoad /\ ~last.args.use_cache)
    => /\ RanLoadPath
       /\ dataset_cache = last.pre.cache
       /\ LET later == load_dataset(dataset_cache, nextOid, NoPath, TRUE)
          IN  IF last.pre.cache # <<>>
              THEN later.kind = "value" /\ later.val = last.pre.cache[1]
              ELSE InList("exists", later.io)

\* an uncached load while another dataset is cached
C10_Witness ==
    /\ IsLoad /\ ~last.args.use_cache
    /\ last.pre.cache # <<>>
    /\ last.kind = "value"
    /\ last.val.data # last.pre.cache[1].data
    /\ dataset_cache = last.pre.cache

-----------------------------------------------------------------------------
(* Properties of generate_all_formats (SpecGenerate) *)

\* C4: when generate_all_formats ends, the working directory is the one the
\* call began in: on normal return, when the provider's main() fails, when
\* the provider cannot be imported, and when the output directory cannot be
\* created or entered.
C4_CwdRestored ==
    last.op = "generate_all_formats" => cwd = last.pre.cwd

\* the provider ran in another directory than the caller's, moved on to a
\* third one and failed there
C4_Witness ==
    /\ last.op = "generate_all_formats"
    /\ last.args.fault = "main"
    /\ last.kind = "raise"
    /\ last.args.during # last.pre.cwd
    /\ last.args.left # last.pre.cwd
    /\ last.args.left # last.args.during
    /\ cwd = last.pre.cwd

-----------------------------------------------------------------------------
(* Properties of the accessors (SpecLookup) *)

\* the elements of xs at the indices Idx, in the order of xs
Select(xs, Idx) ==
    [k \in 1..Cardinality(Idx) |->
        xs[CHOOSE i \in Idx : Cardinality({j \in Idx : j <= i}) = k]]

\* the entries the last call worked on: those of the dataset passed as data,
\* else those of the cached dataset
EntriesUsed ==
    IF last.op = "get_threats_for_component" /\ last.args.data # <<>>
    THEN last.args.data[1].data.entries
    ELSE dataset_cache[1].data.entries

HasEntries ==
    \/ last.op = "get_threats_for_component" /\ last.args.data # <<>>
    \/ dataset_cache # <<>>

IdsOf(entries) == {entries[i].id : i \in DOMAIN entries}

\* the result of get_threats_for_component for one of the 12 keys: the
\* entries whose id is mapped, in dataset order
ThreatsAreTheMappedEntries ==
    LET mapped == Range(COMPONENT_THREAT_MAP[last.args.component_type])
        Idx    == {i \in DOMAIN EntriesUsed : EntriesUsed[i].id \in mapped}
    IN  /\ last.kind = "value"
        /\ last.val = Select(EntriesUsed, Idx)

\* C5 as stated: for each of the 12 keys and every dataset, the result is the
\* entries whose id is mapped, in dataset order, and its ids are exactly the
\* mapped subset.
C5_IdsAreTheMappedSubset ==
    (/\ last.op = "get_threats_for_component"
     /\ last.args.component_type \in Range(COMPONENT_KEYS)
     /\ HasEntries)
    => /\ ThreatsAreTheMappedEntries
       /\ IdsOf(last.val) = Range(COMPONENT_THREAT_MAP[last.args.component_type])

\* C5 amended: for each of the 12 keys and every dataset, the result is the
\* entries whose id is mapped, in dataset order; its ids are the mapped ids
\* that occur in the dataset, hence the whole mapped subset when the dataset
\* has an entry for each mapped id.
C5_IdsAreTheMappedIdsPresent ==
    (/\ last.op = "get_threats_for_component"
     /\ last.args.component_type \in Range(COMPONENT_KEYS)
     /\ HasEntries)
    => LET mapped == Range(COMPONENT_THREAT_MAP[last.args.component_type])
       IN  /\ ThreatsAreTheMappedEntries
           /\ IdsOf(last.val) = mapped \cap IdsOf(EntriesUsed)
           /\ mapped \subseteq IdsOf(EntriesUsed) => IdsOf(last.val) = mapped

\* "llm_agent" (mapped to ASI01, ASI05, ASI06, ASI10) on a dataset that holds
\* ASI06 before ASI01 and nothing else: the result is in dataset order
C5_Witness ==
    /\ last.op = "get_threats_for_component"
    /\ last.args.component_type = COMPONENT_KEYS[1]
    /\ last.kind = "value"
    /\ Len(last.val) = 2
    /\ last.val[1].id = ASI_IDS[6]
    /\ last.val[2].id = ASI_IDS[1]

\* the index of the first entry with the upper-cased id, 0 if there is none
FirstWithId(entries, asi_id) ==
    LET hits == {i \in DOMAIN entries : entries[i].id = upper(asi_id)}
    IN  IF hits = {} THEN 0 ELSE CHOOSE i \in hits : \A j \in hits : i <= j

\* the index of the last entry with the id, 0 if there is none
LastWithId(entries, id) ==
    LET hits == {i \in DOMAIN entries : entries[i].id = id}
    IN  IF hits = {} THEN 0 ELSE CHOOSE i \in hits : \A j \in hits : i >= j

\* the field of an entry that the accessor op returns
FieldOf(op, entry) ==
    CASE op = "get_mitigations"         -> entry.mitigations
      [] op = "get_attack_scenarios"    -> entry.attack_scenarios
      [] op = "get_related_llm_entries" -> entry.related_llm_entries

\* C6: get_mitigations, get_attack_scenarios and get_related_llm_entries
\* raise ValueError ("not found") exactly when get_entry(id) is None and
\* otherwise return the field of the entry get_entry(id) returns; get_entry
\* and get_entry_by_title return None for an id or title no entry matches and
\* never raise for it.
C6_NotFoundContract ==
    /\ last.op \in {"get_mitigations", "get_attack_scenarios", "get_related_llm_entries"}
       => LET g == get_entry(dataset_cache, nextOid, last.args.asi_id)
          IN  /\ (last.kind = "raise" /\ last.err = "ValueError") <=> g.kind = "none"
              /\ g.kind = "value"
                 => last.kind = "value" /\ last.val = FieldOf(last.op, g.val)
              /\ g.kind = "raise" => last.kind = "raise" /\ last.err = g.err
    /\ last.op = "get_entry"
       => /\ last.kind = "raise" => dataset_cache = <<>> /\ last.err = "JSONDecodeError"
          /\ dataset_cache # <<>>
             => LET i == FirstWithId(EntriesUsed, last.args.asi_id)
                IN  IF i = 0 THEN last.kind = "none"
                    ELSE last.kind = "value" /\ last.val = EntriesUsed[i]
    /\ last.op = "get_entry_by_title"
       => /\ last.kind = "raise" => dataset_cache = <<>> /\ last.err = "JSONDecodeError"
          /\ dataset_cache # <<>>
             => LET hits == {i \in DOMAIN EntriesUsed :
                                InStr(lower(last.args.title), lower(EntriesUsed[i].title))}
                IN  IF hits = {} THEN last.kind = "none"
                    ELSE /\ last.kind = "value"
                         /\ last.val = EntriesUsed[CHOOSE i \in hits : \A j \in hits : i <= j]

\* get_mitigations("asi05") on a dataset whose only entry spells its id
\* "asi05": the id is upper-cased, get_entry finds nothing, ValueError
C6_Witness ==
    /\ last.op = "get_mitigations"
    /\ last.args.asi_id = ID_asi05_lower
    /\ last.kind = "raise" /\ last.err = "ValueError"
    /\ dataset_cache # <<>>
    /\ EntriesUsed = <<E_lower>>

\* C7: a component type that is, in lower case, none of the 12 keys raises
\* ValueError before any dataset access, so the cache is as before the call;
\* a label that differs from a key only in letter case is accepted.
C7_UnknownComponentRejected ==
    last.op = "get_threats_for_component"
    => /\ lower(last.args.component_type) \notin Range(COMPONENT_KEYS)
          => /\ last.kind = "raise" /\ last.err = "ValueError"
             /\ last.io = <<>>
             /\ dataset_cache = last.pre.cache
       /\ last.args.component_type \in {L_nonexistent_type, L_llm_dash_agent, <<>>}
          => last.kind = "raise" /\ last.err = "ValueError"
       /\ last.args.component_type \in Range(COMPONENT_KEYS) \cup {L_LLM_Agent, L_RAG_SYSTEM}
          => ~(last.kind = "raise" /\ last.err = "ValueError")
       /\ (last.args.component_type = L_LLM_Agent /\ last.kind = "value")
          => IdsOf(last.val) \subseteq Range(COMPONENT_THREAT_MAP[COMPONENT_KEYS[1]])

\* "nonexistent_type" with no data and nothing cached, the default file being
\* a dataset a load would have cached
C7_Witness ==
    /\ last.op = "get_threats_for_component"
    /\ last.args.component_type = L_nonexistent_type
    /\ last.args.data = <<>>
    /\ last.kind = "raise" /\ last.err = "ValueError"
    /\ last.pre.cache = <<>>
    /\ dataset_cache = <<>>
    /\ fs[DefaultPath].kind = "json"

\* the canonical ids the mapping returned by the last call holds
CanonicalIdsMapped == Range(ASI_IDS) \cap DOMAIN last.val

\* C8 as stated: for every canonical id in the loaded entries,
\* get_asi_to_llm_mapping()[id] equals get_related_llm_entries(id), also when
\* two entries share an id.
C8_MappingEqualsRelated ==
    (last.op = "get_asi_to_llm_mapping" /\ last.kind = "value")
    => \A id \in CanonicalIdsMapped :
          LET g == get_related_llm_entries(dataset_cache, nextOid, id)
          IN  g.kind = "value" /\ g.val = last.val[id]

\* C8 amended: for every canonical id in the loaded entries,
\* get_asi_to_llm_mapping()[id] is the related_llm_entries of the last entry
\* with that id and get_related_llm_entries(id) that of the first; the two
\* are equal when one entry has the id.
C8_MappingIsLastRelatedIsFirst ==
    (last.op = "get_asi_to_llm_mapping" /\ last.kind = "value")
    => /\ DOMAIN last.val = IdsOf(EntriesUsed)
       /\ \A id \in CanonicalIdsMapped :
             LET g == get_related_llm_entries(dataset_cache, nextOid, id)
                 first == FirstWithId(EntriesUsed, id)
                 final == LastWithId(EntriesUsed, id)
             IN  /\ last.val[id] = EntriesUsed[final].related_llm_entries
                 /\ g.kind = "value"
                 /\ g.val = EntriesUsed[first].related_llm_entries
                 /\ first = final => g.val = last.val[id]

\* two entries share ASI01: the mapping has the second one's list,
\* get_related_llm_entries the first one's
C8_Witness ==
    /\ last.op = "get_asi_to_llm_mapping" /\ last.kind = "value"
    /\ EntriesUsed = <<GeneratedEntry(1), E_dup>>
    /\ last.val[ASI_IDS[1]] = E_dup.related_llm_entries
    /\ get_related_llm_entries(dataset_cache, nextOid, ASI_IDS[1]).val
           = GeneratedEntry(1).related_llm_entries

\* C9: get_incidents_by_asi(id) returns the incidents whose related_asi holds
\* the upper-cased id, in their order in get_incidents(); none for an id no
\* incident links to; never an incident without a related_asi field.
C9_IncidentsByAsi ==
    (last.op = "get_incidents_by_asi" /\ dataset_cache # <<>>)
    => LET incidents == dataset_cache[1].data.exploits_tracker.incidents
           id  == upper(last.args.asi_id)
           Idx == {i \in DOMAIN incidents :
                      /\ "related_asi" \in DOMAIN incidents[i]
                      /\ id \in Range(incidents[i].related_asi)}
       IN  /\ last.kind = "value"
           /\ last.val = Select(incidents, Idx)
           /\ \A k \in DOMAIN last.val : "related_asi" \in DOMAIN last.val[k]
           /\ Idx = {} => last.val = <<>>

\* get_incidents_by_asi("Asi06") over an incident without related_asi
\* followed by one linked to ASI06
C9_Witness ==
    /\ last.op = "get_incidents_by_asi"
    /\ last.args.asi_id = Q_Asi06
    /\ dataset_cache # <<>>
    /\ dataset_cache[1].data.exploits_tracker.incidents = <<I_unlinked, I_06>>
    /\ last.val = <<I_06>>

====
